---- MODULE Spec2Model ----
(***************************************************************************)
(* The per-timestep locomotion controller of the Stanford quadruped:       *)
(* Controller.__init__, Controller.step_gait and Controller.run of         *)
(* stanford_quadruped_controller/controller.py.                            *)
(*                                                                         *)
(* Lengths are integers in millimetres and angles integers in              *)
(* milliradians.  Rotations and inverse kinematics are kept symbolic: a    *)
(* rotated matrix is the list of rotations applied to a foot matrix, and   *)
(* a joint-angle value is the inverse-kinematics call that produced it.    *)
(***************************************************************************)
EXTENDS Integers, Sequences, FiniteSets, TLC

VARIABLES
    behavior_state,    \* state.behavior_state
    ticks,             \* state.ticks
    foot_locations,    \* state.foot_locations, [leg -> <<x, y, z>>]
    joint_angles,      \* state.joint_angles
    pitch,             \* state.pitch
    roll,              \* state.roll
    height,            \* state.height
    quat_orientation,  \* state.quat_orientation, (w, x, y, z) in thousandths
    smoothed_yaw,      \* self.smoothed_yaw
    command,           \* the command passed to the last call of run()
    old,               \* the State and smoothed_yaw at entry of the last call
    outcome,           \* "none" before any call, then "returned" or "KeyError"
    ik_calls,          \* arguments of self.inverse_kinematics in the last call
    planner_calls,     \* calls of the stance and swing planners in the last call
    contact_modes      \* the contacts the gait schedule returned in the last call

vars == <<behavior_state, ticks, foot_locations, joint_angles, pitch, roll,
          height, quat_orientation, smoothed_yaw, command, old, outcome,
          ik_calls, planner_calls, contact_modes>>

(***************************************************************************)
(* Bounds of the model.                                                    *)
(***************************************************************************)
MaxTicks == 2

(***************************************************************************)
(* The behaviour states and the transition tables.                         *)
(***************************************************************************)
REST == "REST"
HOP == "HOP"
FINISHHOP == "FINISHHOP"
TROT == "TROT"
DEACTIVATED == "DEACTIVATED"

BehaviorState == {REST, HOP, FINISHHOP, TROT, DEACTIVATED}

\* The hop table with the targets of HOP and FINISHHOP exchanged.
hop_transition_mapping_exchanged ==
    (REST :> HOP) @@ (HOP :> REST) @@ (FINISHHOP :> FINISHHOP) @@ (TROT :> HOP)

hop_transition_mapping ==
    (REST :> HOP) @@ (HOP :> FINISHHOP) @@ (FINISHHOP :> REST) @@ (TROT :> HOP)

trot_transition_mapping ==
    (REST :> TROT) @@ (TROT :> REST) @@ (HOP :> TROT) @@ (FINISHHOP :> TROT)

\* The activate table with every moving state sent to DEACTIVATED.
activate_transition_mapping_Extended ==
    (DEACTIVATED :> REST) @@ (REST :> DEACTIVATED) @@ (TROT :> DEACTIVATED)
        @@ (HOP :> DEACTIVATED) @@ (FINISHHOP :> DEACTIVATED)

\* The activate table without the entry that leaves DEACTIVATED.
activate_transition_mapping_OneWay == (REST :> DEACTIVATED)

activate_transition_mapping ==
    (DEACTIVATED :> REST) @@ (REST :> DEACTIVATED)

(***************************************************************************)
(* A dictionary subscript: the value stored under the key, or KeyError.    *)
(***************************************************************************)
\* The subscript as dict.get(): None for a missing key, no KeyError.
GetItem_Default(mapping, key) ==
    [raised |-> FALSE, value |-> IF key \in DOMAIN mapping THEN mapping[key] ELSE "None"]

\* The subscript falling back to the key itself for a missing key.
GetItem_KeepState(mapping, key) ==
    [raised |-> FALSE, value |-> IF key \in DOMAIN mapping THEN mapping[key] ELSE key]

GetItem(mapping, key) ==
    IF key \in DOMAIN mapping
    THEN [raised |-> FALSE, value |-> mapping[key]]
    ELSE [raised |-> TRUE, value |-> key]

(***************************************************************************)
(* The configuration, the commands and the measured orientations.          *)
(***************************************************************************)
Legs == 0 .. 3

config ==
    [ dt                  |-> 1,
      swing_ticks         |-> 2,
      max_yaw_rate        |-> 2000,
      max_stance_yaw      |-> 1200,
      max_stance_yaw_rate |-> 400,
      yaw_time_constant   |-> 2,
      default_stance      |-> [leg \in Legs |->
                                <<IF leg < 2 THEN 100 ELSE -100,
                                  IF leg % 2 = 0 THEN -90 ELSE 90,
                                  0>>] ]

Events == [activate_event : BOOLEAN, trot_event : BOOLEAN, hop_event : BOOLEAN]

Setpoints ==
    { [roll |-> 0,    pitch |-> 0,   yaw_rate |-> 0,     height |-> -160],
      [roll |-> 100,  pitch |-> -50, yaw_rate |-> 2000,  height |-> -140],
      [roll |-> -100, pitch |-> 50,  yaw_rate |-> -1000, height |-> -180] }

Command ==
    { [activate_event |-> e.activate_event, trot_event |-> e.trot_event,
       hop_event |-> e.hop_event, roll |-> s.roll, pitch |-> s.pitch,
       yaw_rate |-> s.yaw_rate, height |-> s.height] : e \in Events, s \in Setpoints }

NoCommand ==
    [activate_event |-> FALSE, trot_event |-> FALSE, hop_event |-> FALSE,
     roll |-> 0, pitch |-> 0, yaw_rate |-> 0, height |-> 0]

\* Measured orientations: unit quaternions (w, x, y, z) in thousandths.
Orientations == { <<1000, 0, 0, 0>>, <<945, 299, -104, 84>> }

\* Measured orientations tilted beyond max_tilt about one axis each.
TiltedOrientations == { <<945, 299, -104, 84>>, <<964, -97, -246, -25>> }

\* The (roll, pitch, yaw) of the measured orientations.
quat2euler(q) ==
    IF q = <<945, 299, -104, 84>> THEN <<600, -250, 100>>
    ELSE IF q = <<964, -97, -246, -25>> THEN <<-200, -500, 0>>
    ELSE <<0, 0, 0>>

(***************************************************************************)
(* The external collaborators: the gait schedule and the two planners.     *)
(* Their results are inputs of a TROT tick.                                *)
(***************************************************************************)
ContactPatterns ==
    { <<1, 1, 1, 1>>, <<1, 0, 0, 1>>, <<0, 1, 1, 0>>, <<0, 0, 0, 0>> }

PlannerSteps == {10}

Gait ==
    [contacts : ContactPatterns, subphase_ticks : 0 .. (config.swing_ticks - 1),
     step : PlannerSteps]

StanceNext(leg, locations, step) ==
    <<locations[leg][1] - step, locations[leg][2], locations[leg][3]>>

SwingNext(leg, locations, step) ==
    <<config.default_stance[leg][1] + step, config.default_stance[leg][2], 40>>

(***************************************************************************)
(* Matrices.  A rotation matrix is kept as its Euler angles; a product of  *)
(* rotations with a foot matrix as the rotations in order of application   *)
(* and the foot matrix.                                                    *)
(***************************************************************************)
euler2mat(r, p, y) == [roll |-> r, pitch |-> p, yaw |-> y, transposed |-> FALSE]

Transpose(rmat) == [rmat EXCEPT !.transposed = ~@]

Matrix(locations) == [rotations |-> <<>>, feet |-> locations]

MatMul(rmat, m) == [m EXCEPT !.rotations = Append(@, rmat)]

Offset(stance, dz) ==
    [leg \in Legs |-> <<stance[leg][1], stance[leg][2], stance[leg][3] + dz>>]

Zeros == [leg \in Legs |-> <<0, 0, 0>>]

clip(v, lo, hi) == IF v < lo THEN lo ELSE IF v > hi THEN hi ELSE v

\* Integer division rounding towards zero.
Quot(a, b) == IF a >= 0 THEN a \div b ELSE -((-a) \div b)

\* The result of the inverse-kinematics function on a foot matrix.
inverse_kinematics(m, cfg) == <<"joint_angles_of", m>>

(***************************************************************************)
(* utilities.clipped_first_order_filter                                    *)
(***************************************************************************)
clipped_first_order_filter(input, target, max_rate, tau) ==
    clip(Quot(target - input, tau), -max_rate, max_rate)

(***************************************************************************)
(* Controller.step_gait                                                    *)
(***************************************************************************)
PlannerCall(leg, gait) ==
    IF gait.contacts[leg + 1] = 1
    THEN [planner |-> "stance", leg |-> leg, swing_proportion |-> <<>>]
    ELSE [planner |-> "swing", leg |-> leg,
          swing_proportion |-> <<gait.subphase_ticks, config.swing_ticks>>]

\* step_gait with the contact test inverted: swing legs to the stance planner.
step_gait_Inverted(locations, gait) ==
    LET inverted == [gait EXCEPT !.contacts = [i \in 1 .. 4 |-> 1 - gait.contacts[i]]]
    IN  [ new_foot_locations |->
              [leg \in Legs |->
                  IF inverted.contacts[leg + 1] = 1
                  THEN StanceNext(leg, locations, gait.step)
                  ELSE SwingNext(leg, locations, gait.step)],
          contact_modes |-> gait.contacts,
          calls |-> [i \in 1 .. 4 |-> PlannerCall(i - 1, inverted)] ]

step_gait(locations, gait) ==
    [ new_foot_locations |->
          [leg \in Legs |->
              IF gait.contacts[leg + 1] = 1
              THEN StanceNext(leg, locations, gait.step)
              ELSE SwingNext(leg, locations, gait.step)],
      contact_modes |-> gait.contacts,
      calls |-> [i \in 1 .. 4 |-> PlannerCall(i - 1, gait)] ]

(***************************************************************************)
(* Controller.run: the update of the operating state.                      *)
(***************************************************************************)
\* The update with hop_event tested before trot_event.
Transition_HopFirst(state, c) ==
    IF c.activate_event THEN GetItem(activate_transition_mapping, state)
    ELSE IF c.hop_event THEN GetItem(hop_transition_mapping, state)
    ELSE IF c.trot_event THEN GetItem(trot_transition_mapping, state)
    ELSE [raised |-> FALSE, value |-> state]

\* The update with the last branch taken whenever the first two are not.
Transition_HopDefault(state, c) ==
    IF c.activate_event THEN GetItem(activate_transition_mapping, state)
    ELSE IF c.trot_event THEN GetItem(trot_transition_mapping, state)
    ELSE GetItem(hop_transition_mapping, state)

Transition(state, c) ==
    IF c.activate_event THEN GetItem(activate_transition_mapping, state)
    ELSE IF c.trot_event THEN GetItem(trot_transition_mapping, state)
    ELSE IF c.hop_event THEN GetItem(hop_transition_mapping, state)
    ELSE [raised |-> FALSE, value |-> state]

\* The dispatch on the state read before the update.
DispatchState_Stale(before, after) == before

\* The state the mode dispatch reads, after the update above has written it.
DispatchState(before, after) == after

(***************************************************************************)
(* Controller.run: the foot planning of each mode.  Each gives the values  *)
(* written to foot_locations, joint_angles and smoothed_yaw and the calls  *)
(* made to the collaborators.                                              *)
(***************************************************************************)
max_tilt == 400

correction_factor(angle) == (8 * angle) \div 10

\* The compensation with the measured angles scaled but not clipped.
TiltCompensation_Unclipped(q) ==
    LET measured == quat2euler(q)
    IN  euler2mat(correction_factor(measured[1]), correction_factor(measured[2]), 0)

TiltCompensation(q) ==
    LET measured == quat2euler(q)
        roll_compensation == correction_factor(clip(measured[1], -max_tilt, max_tilt))
        pitch_compensation == correction_factor(clip(measured[2], -max_tilt, max_tilt))
    IN  euler2mat(roll_compensation, pitch_compensation, 0)

TrotPlan(c, gait) ==
    LET gaited == step_gait(foot_locations, gait)
        rotated_foot_locations ==
            MatMul(euler2mat(c.roll, c.pitch, 0), Matrix(gaited.new_foot_locations))
        rmat == TiltCompensation(quat_orientation)
        compensated == MatMul(Transpose(rmat), rotated_foot_locations)
    IN  [ foot_locations |-> gaited.new_foot_locations,
          joint_angles   |-> inverse_kinematics(compensated, config),
          smoothed_yaw   |-> smoothed_yaw,
          ik_calls       |-> <<compensated>>,
          planner_calls  |-> gaited.calls,
          contact_modes  |-> gaited.contact_modes ]

\* HOP and FINISHHOP clearing the smoothed yaw kept for REST.
HopPlan_ResetYaw(dz) ==
    LET locations == Offset(config.default_stance, dz)
    IN  [ foot_locations |-> locations,
          joint_angles   |-> inverse_kinematics(Matrix(locations), config),
          smoothed_yaw   |-> 0,
          ik_calls       |-> <<Matrix(locations)>>,
          planner_calls  |-> <<>>,
          contact_modes  |-> <<>> ]

HopPlan(dz) ==
    LET locations == Offset(config.default_stance, dz)
    IN  [ foot_locations |-> locations,
          joint_angles   |-> inverse_kinematics(Matrix(locations), config),
          smoothed_yaw   |-> smoothed_yaw,
          ik_calls       |-> <<Matrix(locations)>>,
          planner_calls  |-> <<>>,
      contact_modes  |-> <<>> ]

YawTarget(c) == -Quot(c.yaw_rate * config.max_stance_yaw, config.max_yaw_rate)

\* REST passing the unrotated foot locations to inverse kinematics.
RestPlan_Unrotated(c) ==
    LET yaw == smoothed_yaw
                 + config.dt * clipped_first_order_filter(
                                   smoothed_yaw, YawTarget(c),
                                   config.max_stance_yaw_rate,
                                   config.yaw_time_constant)
        locations == Offset(config.default_stance, c.height)
    IN  [ foot_locations |-> locations,
          joint_angles   |-> inverse_kinematics(Matrix(locations), config),
          smoothed_yaw   |-> yaw,
          ik_calls       |-> <<Matrix(locations)>>,
          planner_calls  |-> <<>>,
      contact_modes  |-> <<>> ]

RestPlan(c) ==
    LET yaw == smoothed_yaw
                 + config.dt * clipped_first_order_filter(
                                   smoothed_yaw, YawTarget(c),
                                   config.max_stance_yaw_rate,
                                   config.yaw_time_constant)
        locations == Offset(config.default_stance, c.height)
        rotated_foot_locations ==
            MatMul(euler2mat(c.roll, c.pitch, yaw), Matrix(locations))
    IN  [ foot_locations |-> locations,
          joint_angles   |-> inverse_kinematics(rotated_foot_locations, config),
          smoothed_yaw   |-> yaw,
          ik_calls       |-> <<rotated_foot_locations>>,
          planner_calls  |-> <<>>,
      contact_modes  |-> <<>> ]

IdlePlan ==
    [ foot_locations |-> foot_locations,
      joint_angles   |-> joint_angles,
      smoothed_yaw   |-> smoothed_yaw,
      ik_calls       |-> <<>>,
      planner_calls  |-> <<>>,
      contact_modes  |-> <<>> ]

\* The dispatch with the REST branch as the final else.
Plan_RestOtherwise(mode, c, gait) ==
    IF mode = TROT THEN TrotPlan(c, gait)
    ELSE IF mode = HOP THEN HopPlan(-90)
    ELSE IF mode = FINISHHOP THEN HopPlan(-220)
    ELSE RestPlan(c)

\* The dispatch with the crouch depths of HOP and FINISHHOP exchanged.
Plan_DepthsExchanged(mode, c, gait) ==
    IF mode = TROT THEN TrotPlan(c, gait)
    ELSE IF mode = HOP THEN HopPlan(-220)
    ELSE IF mode = FINISHHOP THEN HopPlan(-90)
    ELSE IF mode = REST THEN RestPlan(c)
    ELSE IdlePlan

Plan(mode, c, gait) ==
    IF mode = TROT THEN TrotPlan(c, gait)
    ELSE IF mode = HOP THEN HopPlan(-90)
    ELSE IF mode = FINISHHOP THEN HopPlan(-220)
    ELSE IF mode = REST THEN RestPlan(c)
    ELSE IdlePlan

\* The cached command values and the tick counter written at the end of run().
Bookkeeping(c) ==
    [ticks |-> ticks + 1, pitch |-> c.pitch, roll |-> c.roll, height |-> c.height]

(***************************************************************************)
(* Controller.run                                                          *)
(***************************************************************************)
Snapshot ==
    [ behavior_state |-> behavior_state, ticks |-> ticks,
      foot_locations |-> foot_locations, joint_angles |-> joint_angles,
      pitch |-> pitch, roll |-> roll, height |-> height,
      smoothed_yaw |-> smoothed_yaw ]

run(c, gait) ==
    LET t == Transition(behavior_state, c) IN
    /\ command' = c
    /\ old' = Snapshot
    /\ UNCHANGED quat_orientation
    /\ IF t.raised
       THEN /\ outcome' = "KeyError"
            /\ ik_calls' = <<>>
            /\ planner_calls' = <<>>
            /\ contact_modes' = <<>>
            /\ UNCHANGED <<behavior_state, ticks, foot_locations, joint_angles,
                           pitch, roll, height, smoothed_yaw>>
       ELSE LET plan == Plan(DispatchState(behavior_state, t.value), c, gait)
                kept == Bookkeeping(c)
            IN  /\ outcome' = "returned"
                /\ behavior_state' = t.value
                /\ foot_locations' = plan.foot_locations
                /\ joint_angles' = plan.joint_angles
                /\ smoothed_yaw' = plan.smoothed_yaw
                /\ ik_calls' = plan.ik_calls
                /\ planner_calls' = plan.planner_calls
                /\ contact_modes' = plan.contact_modes
                /\ ticks' = kept.ticks
                /\ pitch' = kept.pitch
                /\ roll' = kept.roll
                /\ height' = kept.height

\* A gait schedule with every leg in stance.
StandingGait == [contacts |-> <<1, 1, 1, 1>>, subphase_ticks |-> 0, step |-> 10]

\* The gait schedule and planners are consulted in a TROT tick only.
GaitInputs(c) ==
    LET t == Transition(behavior_state, c) IN
    IF ~t.raised /\ t.value = TROT THEN Gait ELSE {StandingGait}

InitWith(orientations) ==
    /\ behavior_state \in BehaviorState
    /\ ticks = 0
    /\ foot_locations = Zeros
    /\ joint_angles = <<"zeros">>
    /\ pitch = 0
    /\ roll = 0
    /\ height = 0
    /\ quat_orientation \in orientations
    /\ smoothed_yaw = 0
    /\ command = NoCommand
    /\ old = Snapshot
    /\ outcome = "none"
    /\ ik_calls = <<>>
    /\ planner_calls = <<>>
    /\ contact_modes = <<>>

Next ==
    \E c \in Command : \E gait \in GaitInputs(c) :
        ticks < MaxTicks /\ run(c, gait)

Init == InitWith(Orientations)

Spec == Init /\ [][Next]_vars

(***************************************************************************)
(* A call of run() abandoned part-way: a planner called by step_gait or    *)
(* the inverse-kinematics call does not return, and control leaves run()   *)
(* with the writes made so far.  The control loop ends there.              *)
(***************************************************************************)
AbandonPoints == {"planner", "inverse_kinematics"}

\* The State fields with the tick counter advanced at the start of the call.
Abandoned_CountedFirst(after, plan, at) ==
    [ behavior_state |-> after,
      foot_locations |-> IF at = "inverse_kinematics" THEN plan.foot_locations
                         ELSE foot_locations,
      joint_angles   |-> joint_angles,
      smoothed_yaw   |-> plan.smoothed_yaw,
      ticks |-> ticks + 1, pitch |-> pitch, roll |-> roll, height |-> height ]

\* The State fields and smoothed_yaw as the abandoned call leaves them.
Abandoned(after, plan, at) ==
    [ behavior_state |-> after,
      foot_locations |-> IF at = "inverse_kinematics" THEN plan.foot_locations
                         ELSE foot_locations,
      joint_angles   |-> joint_angles,
      smoothed_yaw   |-> plan.smoothed_yaw,
      ticks |-> ticks, pitch |-> pitch, roll |-> roll, height |-> height ]

abandon(c, gait, at) ==
    LET t == Transition(behavior_state, c)
        mode == DispatchState(behavior_state, t.value)
        plan == Plan(mode, c, gait)
        left == Abandoned(t.value, plan, at)
    IN  /\ ~t.raised
        /\ mode # DEACTIVATED
        /\ at = "planner" => mode = TROT
        /\ command' = c
        /\ old' = Snapshot
        /\ outcome' = "abandoned"
        /\ UNCHANGED quat_orientation
        /\ behavior_state' = left.behavior_state
        /\ foot_locations' = left.foot_locations
        /\ joint_angles' = left.joint_angles
        /\ smoothed_yaw' = left.smoothed_yaw
        /\ ticks' = left.ticks
        /\ pitch' = left.pitch
        /\ roll' = left.roll
        /\ height' = left.height
        /\ ik_calls' = IF at = "inverse_kinematics" THEN plan.ik_calls ELSE <<>>
        /\ planner_calls' = IF at = "planner" THEN SubSeq(plan.planner_calls, 1, 1)
                            ELSE plan.planner_calls
        /\ contact_modes' = plan.contact_modes

\* The commands of the first two setpoints, on a level body with every leg
\* in stance when trotting.
SteadyCommand == {c \in Command : c.height \in {-160, -140}}

Complete ==
    \E c \in SteadyCommand : ticks < MaxTicks /\ run(c, StandingGait)

Abandon ==
    \E c \in SteadyCommand : \E at \in AbandonPoints :
        ticks < MaxTicks /\ abandon(c, StandingGait, at)

NextAbandon == outcome # "abandoned" /\ (Complete \/ Abandon)

InitAbandon == InitWith({<<1000, 0, 0, 0>>})

SpecAbandon == InitAbandon /\ [][NextAbandon]_vars

\* The controller steered in yaw over a longer run: level body, every leg in
\* stance when trotting, and yaw rates up to twice max_yaw_rate.
MaxYawTicks == 4

YawRates == {-4000, 0, 2000}

YawCommand ==
    { [activate_event |-> e.activate_event, trot_event |-> e.trot_event,
       hop_event |-> e.hop_event, roll |-> 0, pitch |-> 0,
       yaw_rate |-> y, height |-> -160] : e \in Events, y \in YawRates }

InitYaw == InitWith({<<1000, 0, 0, 0>>})

NextYaw == \E c \in YawCommand : ticks < MaxYawTicks /\ run(c, StandingGait)

SpecYaw == InitYaw /\ [][NextYaw]_vars

\* The controller on a body measured as tilted.
InitTilted == InitWith(TiltedOrientations)

SpecTilted == InitTilted /\ [][Next]_vars

(***************************************************************************)
(* Properties.  A state reached by a call of run() holds the command of    *)
(* that call in command, the state at its entry in old, and how it ended   *)
(* in outcome.                                                             *)
(***************************************************************************)
Called == outcome # "none"

Returned == outcome = "returned"

\* The event that wins the tick: the first flag set, in the order the source tests them.
Winner(c) ==
    IF c.activate_event THEN "activate"
    ELSE IF c.trot_event THEN "trot"
    ELSE IF c.hop_event THEN "hop"
    ELSE "none"

\* The entries of the three tables, as <<event, state, target>>.
TableEntries ==
    { <<"activate", "DEACTIVATED", "REST">>, <<"activate", "REST", "DEACTIVATED">>,
      <<"trot", "REST", "TROT">>, <<"trot", "TROT", "REST">>,
      <<"trot", "HOP", "TROT">>, <<"trot", "FINISHHOP", "TROT">>,
      <<"hop", "REST", "HOP">>, <<"hop", "HOP", "FINISHHOP">>,
      <<"hop", "FINISHHOP", "REST">>, <<"hop", "TROT", "HOP">> }

\* C1: for every (state, winning event) with an entry in that event's table,
\* one call of run() returns with behavior_state equal to the table's target.
C1_TableTransitions ==
    Called =>
        \A e \in TableEntries :
            (Winner(command) = e[1] /\ old.behavior_state = e[2])
                => (Returned /\ behavior_state = e[3])

C1_Witness ==
    /\ Returned
    /\ old.behavior_state = FINISHHOP
    /\ Winner(command) = "hop"
    /\ behavior_state = REST

\* The state that one event alone leaves: the target of its table entry, or
\* the state itself when the event is "none" or has no entry for the state.
AloneResult(state, event) ==
    IF \E e \in TableEntries : e[1] = event /\ e[2] = state
    THEN (CHOOSE e \in TableEntries : e[1] = event /\ e[2] = state)[3]
    ELSE state

\* C2: at most one event is honoured per call, in the priority activate >
\* trot > hop: behavior_state after the call is what the highest-priority
\* flag set would give alone, whatever lower-priority flags are also set.
C2_StrictPriority ==
    Called => behavior_state = AloneResult(old.behavior_state, Winner(command))

C2_Witness ==
    /\ Returned
    /\ old.behavior_state = TROT
    /\ ~command.activate_event /\ command.trot_event /\ command.hop_event
    /\ behavior_state = REST

\* C3: transitions are total: for every state and every winning event, also
\* the pairs with no table entry, run() ends with a defined outcome and not
\* with an unhandled lookup failure.
C3_TransitionsTotal == outcome # "KeyError"

\* C4: every call of run(), in every state and for every command, increases
\* ticks by exactly 1.
C4_TicksAdvance == Called => ticks = old.ticks + 1

\* C5: after every call of run(), in every state, pitch, roll and height
\* equal those of the command passed to the call.
C5_CommandCached ==
    Called => (pitch = command.pitch /\ roll = command.roll /\ height = command.height)

\* C6: in each of the 5 states, a call of run() with the three event flags
\* all false returns with behavior_state unchanged.
C6_NoEventNoChange ==
    (Called /\ Winner(command) = "none")
        => (Returned /\ behavior_state = old.behavior_state)

C6_Witness ==
    /\ Returned
    /\ Winner(command) = "none"
    /\ old.behavior_state = HOP
    /\ behavior_state = HOP
    /\ ticks = 2

\* C7: the foot locations written by a call are those of the mode after the
\* transition of that call: the crouch default_stance + (0,0,-0.09) in HOP,
\* default_stance + (0,0,-0.22) in FINISHHOP, default_stance + (0,0,height)
\* in REST, the planners' result in TROT, and nothing in DEACTIVATED.
C7_PlanAfterTransition ==
    Returned =>
        /\ behavior_state = HOP =>
              /\ foot_locations = [leg \in Legs |->
                    <<config.default_stance[leg][1], config.default_stance[leg][2],
                      config.default_stance[leg][3] - 90>>]
              /\ planner_calls = <<>>
        /\ behavior_state = FINISHHOP =>
              /\ foot_locations = [leg \in Legs |->
                    <<config.default_stance[leg][1], config.default_stance[leg][2],
                      config.default_stance[leg][3] - 220>>]
              /\ planner_calls = <<>>
        /\ behavior_state = REST =>
              /\ foot_locations = [leg \in Legs |->
                    <<config.default_stance[leg][1], config.default_stance[leg][2],
                      config.default_stance[leg][3] + command.height>>]
              /\ planner_calls = <<>>
        /\ behavior_state = TROT => Len(planner_calls) = 4
        /\ behavior_state = DEACTIVATED =>
              /\ foot_locations = old.foot_locations
              /\ planner_calls = <<>>

C7_Witness ==
    /\ Returned
    /\ old.behavior_state = REST
    /\ old.foot_locations # foot_locations
    /\ behavior_state = HOP
    /\ foot_locations[0] = <<100, -90, -90>>

\* C8: a call that returns in REST, TROT, HOP or FINISHHOP invokes inverse
\* kinematics exactly once, on the foot matrix the call produced (rotated as
\* the mode prescribes), and joint_angles holds the result.
C8_InverseKinematicsOnce ==
    (Returned /\ behavior_state # DEACTIVATED) =>
        /\ Len(ik_calls) = 1
        /\ ik_calls[1].feet = foot_locations
        /\ joint_angles = <<"joint_angles_of", ik_calls[1]>>
        /\ behavior_state \in {HOP, FINISHHOP} => ik_calls[1].rotations = <<>>
        /\ behavior_state = REST =>
              ik_calls[1].rotations =
                  << [roll |-> command.roll, pitch |-> command.pitch,
                      yaw |-> smoothed_yaw, transposed |-> FALSE] >>
        /\ behavior_state = TROT =>
              /\ Len(ik_calls[1].rotations) = 2
              /\ ik_calls[1].rotations[1] =
                    [roll |-> command.roll, pitch |-> command.pitch,
                     yaw |-> 0, transposed |-> FALSE]
              /\ ik_calls[1].rotations[2].transposed

C8_Witness ==
    /\ Returned
    /\ behavior_state = REST
    /\ command.roll # 0
    /\ smoothed_yaw # 0
    /\ Len(ik_calls) = 1
    /\ joint_angles # old.joint_angles

\* C9: a call whose state after the transition is DEACTIVATED leaves
\* foot_locations and joint_angles unchanged and invokes neither the gait
\* planners nor inverse kinematics.
C9_DeactivatedIdle ==
    (Called /\ behavior_state = DEACTIVATED) =>
        /\ foot_locations = old.foot_locations
        /\ joint_angles = old.joint_angles
        /\ ik_calls = <<>>
        /\ planner_calls = <<>>

C9_Witness ==
    /\ Returned
    /\ old.behavior_state = REST
    /\ behavior_state = DEACTIVATED
    /\ joint_angles # <<"zeros">>
    /\ joint_angles = old.joint_angles

\* C10 as stated: a call in DEACTIVATED with activate_event moves to REST and
\* leaves joint_angles unchanged.
C10_JointAnglesUnchanged ==
    (Called /\ old.behavior_state = DEACTIVATED /\ command.activate_event)
        => (behavior_state = REST /\ joint_angles = old.joint_angles)

\* C10, amended: a call in DEACTIVATED with activate_event moves to REST and
\* assigns joint_angles, in that same call, the inverse-kinematics result for
\* the REST foot locations default_stance + (0,0,height) rotated by the
\* commanded roll and pitch and smoothed_yaw.
C10_ActivateComputesRest ==
    (Called /\ old.behavior_state = DEACTIVATED /\ command.activate_event) =>
        /\ Returned
        /\ behavior_state = REST
        /\ Len(ik_calls) = 1
        /\ joint_angles =
              <<"joint_angles_of",
                [rotations |-> << [roll |-> command.roll, pitch |-> command.pitch,
                                   yaw |-> smoothed_yaw, transposed |-> FALSE] >>,
                 feet |-> [leg \in Legs |->
                            <<config.default_stance[leg][1],
                              config.default_stance[leg][2],
                              config.default_stance[leg][3] + command.height>>]]>>

C10_Witness ==
    /\ Returned
    /\ old.behavior_state = DEACTIVATED
    /\ command.activate_event
    /\ behavior_state = REST
    /\ old.joint_angles = <<"zeros">>
    /\ joint_angles # old.joint_angles

\* default_stance lowered or raised by dz on every leg.
StanceAt(dz) ==
    [leg \in Legs |->
        <<config.default_stance[leg][1], config.default_stance[leg][2],
          config.default_stance[leg][3] + dz>>]

\* The state left by a call made in HOP whose winning event is hop_event.
AfterHopInHop ==
    Called /\ old.behavior_state = HOP /\ Winner(command) = "hop"

\* The step is a call of run() whose winning event is hop_event.
HopCall == outcome' # "none" /\ Winner(command') = "hop" /\ old' = Snapshot

\* C11 as stated: from HOP, a call with hop_event moves to FINISHHOP with the
\* foot z-offset -0.09, and the following call, again with hop_event,
\* produces the -0.22 offset in FINISHHOP.
C11_CrouchThenSettle ==
    [][ (AfterHopInHop /\ HopCall) =>
            /\ behavior_state = FINISHHOP
            /\ foot_locations = StanceAt(-90)
            /\ behavior_state' = FINISHHOP
            /\ foot_locations' = StanceAt(-220) ]_vars

\* C11, amended: from HOP, a call with hop_event moves to FINISHHOP and writes
\* the -0.22 offset in that same call; the following call, again with
\* hop_event, moves to REST and writes default_stance + (0,0,height).
C11_SettleThenRest ==
    [][ (AfterHopInHop /\ HopCall) =>
            /\ behavior_state = FINISHHOP
            /\ foot_locations = StanceAt(-220)
            /\ outcome' = "returned"
            /\ behavior_state' = REST
            /\ foot_locations' = StanceAt(command'.height) ]_vars

C11_Witness ==
    /\ Returned
    /\ ticks = 2
    /\ old.behavior_state = FINISHHOP
    /\ old.foot_locations = StanceAt(-220)
    /\ old.ticks = 1
    /\ Winner(command) = "hop"
    /\ behavior_state = REST
    /\ foot_locations = StanceAt(command.height)

\* The planner calls of the last call of run() that were made for a leg.
CallsFor(leg) == {i \in 1 .. Len(planner_calls) : planner_calls[i].leg = leg}

\* C12: in every TROT tick each of the 4 legs is routed to exactly one planner
\* exactly once, and to the stance planner if and only if the gait schedule's
\* contact flag of that leg is 1, to the swing planner otherwise.
C12_GaitPartition ==
    (Returned /\ behavior_state = TROT) =>
        /\ Len(contact_modes) = 4
        /\ Len(planner_calls) = 4
        /\ \A leg \in Legs :
              /\ Cardinality(CallsFor(leg)) = 1
              /\ \A i \in CallsFor(leg) :
                    /\ planner_calls[i].planner \in {"stance", "swing"}
                    /\ planner_calls[i].planner = "stance" <=> contact_modes[leg + 1] = 1

C12_Witness ==
    /\ Returned
    /\ behavior_state = TROT
    /\ contact_modes = <<1, 0, 0, 1>>
    /\ planner_calls[1].planner = "stance"
    /\ planner_calls[2].planner = "swing"
    /\ planner_calls[3].planner = "swing"
    /\ planner_calls[4].planner = "stance"

\* The measured roll or pitch limited to +-0.4 rad and scaled by 0.8.
Compensated(angle) ==
    IF angle < -400 THEN -320 ELSE IF angle > 400 THEN 320 ELSE (angle * 4) \div 5

\* The compensation rotation handed to inverse kinematics in a TROT tick.
AppliedCompensation == ik_calls[1].rotations[2]

\* C13: in every TROT tick the compensation angle of each axis is
\* clip(value, -0.4, 0.4) * 0.8 of the measured roll and of the measured
\* pitch, independently, with the yaw term 0; each has magnitude at most 0.32.
C13_TiltCompensation ==
    (Returned /\ behavior_state = TROT) =>
        /\ AppliedCompensation.transposed
        /\ AppliedCompensation.roll = Compensated(quat2euler(quat_orientation)[1])
        /\ AppliedCompensation.pitch = Compensated(quat2euler(quat_orientation)[2])
        /\ AppliedCompensation.yaw = 0
        /\ AppliedCompensation.roll \in -320 .. 320
        /\ AppliedCompensation.pitch \in -320 .. 320

C13_Witness ==
    /\ Returned
    /\ behavior_state = TROT
    /\ quat2euler(quat_orientation) = <<-200, -500, 0>>
    /\ AppliedCompensation.roll = -160
    /\ AppliedCompensation.pitch = -320
    /\ AppliedCompensation.yaw = 0

Abs(x) == IF x < 0 THEN -x ELSE x

\* C14: over any sequence of calls and any commands, smoothed_yaw never
\* exceeds max_stance_yaw in magnitude.
C14_YawBounded == Abs(smoothed_yaw) <= 1200

\* With the commanded yaw rate within max_yaw_rate the bound is kept.
YawBoundedWithinRange ==
    Abs(smoothed_yaw) <= 1200 \/ Abs(command.yaw_rate) > 2000
        \/ Abs(old.smoothed_yaw) > 1200

\* C15 as stated: a call abandoned before it completes leaves no field of
\* State different from its value after the last completed tick.
C15_NoPartialWrites ==
    outcome = "abandoned" =>
        /\ behavior_state = old.behavior_state
        /\ foot_locations = old.foot_locations
        /\ joint_angles = old.joint_angles
        /\ ticks = old.ticks
        /\ pitch = old.pitch
        /\ roll = old.roll
        /\ height = old.height

\* C15, amended: a call abandoned in a planner or in inverse kinematics
\* leaves ticks, pitch, roll, height and joint_angles at their values after
\* the last completed tick, while behavior_state already holds the state
\* after the transition and, when inverse kinematics was reached,
\* foot_locations already holds the new mode's foot locations.
C15_PartialWrites ==
    outcome = "abandoned" =>
        /\ ticks = old.ticks
        /\ pitch = old.pitch
        /\ roll = old.roll
        /\ height = old.height
        /\ joint_angles = old.joint_angles
        /\ behavior_state = AloneResult(old.behavior_state, Winner(command))
        /\ (ik_calls # <<>>) => foot_locations = ik_calls[1].feet
        /\ (ik_calls = <<>>) => foot_locations = old.foot_locations

C15_Witness ==
    /\ outcome = "abandoned"
    /\ old.behavior_state = REST
    /\ behavior_state = HOP
    /\ foot_locations = StanceAt(-90)
    /\ foot_locations # old.foot_locations
    /\ ticks = old.ticks

\* A call abandoned in the first planner call of a tick that entered TROT.
AbandonedInPlanner ==
    /\ outcome = "abandoned"
    /\ old.behavior_state = REST
    /\ behavior_state = TROT
    /\ Len(planner_calls) = 1
    /\ ik_calls = <<>>
    /\ foot_locations = old.foot_locations

\* The states one call of run() can move to from a state by an event that has
\* an entry in its table for that state.
Successors(state) ==
    { Transition(state, c).value :
        c \in {k \in Command : Winner(k) # "none" /\ ~Transition(state, k).raised} }

\* The states from which the states of S are reached in at most one such call.
Before(S) == S \cup {s \in BehaviorState : Successors(s) \cap S # {}}

\* The states from which REST is reached by a sequence of such calls.
CanRest == Before(Before(Before(Before({REST}))))

\* C16: the behaviour graph has no terminal state, REST can be reached from
\* each of the 5 states by events that have table entries, and so from the
\* state left by any sequence of calls of run().
C16_RestReachable ==
    /\ \A s \in BehaviorState : Successors(s) \ {s} # {}
    /\ CanRest = {"DEACTIVATED", "REST", "TROT", "HOP", "FINISHHOP"}
    /\ behavior_state \in CanRest

C16_Witness ==
    /\ Returned
    /\ ticks = 2
    /\ old.behavior_state = REST
    /\ behavior_state = DEACTIVATED
    /\ REST \in Successors(behavior_state)

\* C17: after any sequence of calls with arbitrary commands, from any of the
\* 5 states, behavior_state is one of the 5 states.
C17_ValidState ==
    behavior_state \in {"DEACTIVATED", "REST", "TROT", "HOP", "FINISHHOP"}

C17_Witness ==
    /\ outcome = "KeyError"
    /\ ticks = 1
    /\ old.behavior_state = FINISHHOP
    /\ command.activate_event /\ command.trot_event /\ command.hop_event
    /\ behavior_state = FINISHHOP

\* The winning event of the command has no entry in its table for the state.
NoEntry(state, c) ==
    /\ Winner(c) # "none"
    /\ ~\E e \in TableEntries : e[1] = Winner(c) /\ e[2] = state

\* C18: when the winning event has no entry in its table for the current
\* state, the lookup fails before anything is written: every State field
\* and smoothed_yaw keep their values and inverse kinematics is not invoked.
C18_FailedLookupWritesNothing ==
    (Called /\ NoEntry(old.behavior_state, command)) =>
        /\ outcome = "KeyError"
        /\ behavior_state = old.behavior_state
        /\ foot_locations = old.foot_locations
        /\ joint_angles = old.joint_angles
        /\ ticks = old.ticks
        /\ pitch = old.pitch
        /\ roll = old.roll
        /\ height = old.height
        /\ smoothed_yaw = old.smoothed_yaw
        /\ ik_calls = <<>>

C18_Witness ==
    /\ outcome = "KeyError"
    /\ old.behavior_state = TROT
    /\ command.activate_event
    /\ ticks = 1
    /\ joint_angles # <<"zeros">>
    /\ pitch # command.pitch
    /\ ik_calls = <<>>

\* C19: DEACTIVATED is entered only from REST and only by a call with
\* activate_event, and left only to REST and only by a call with
\* activate_event.
C19_DeactivatedGate ==
    Called =>
        /\ (behavior_state = DEACTIVATED /\ old.behavior_state # DEACTIVATED)
              => (old.behavior_state = REST /\ command.activate_event)
        /\ (old.behavior_state = DEACTIVATED /\ behavior_state # DEACTIVATED)
              => (behavior_state = REST /\ command.activate_event)

C19_Witness ==
    /\ Returned
    /\ old.behavior_state = REST
    /\ command.activate_event /\ command.trot_event /\ command.hop_event
    /\ behavior_state = DEACTIVATED
    /\ ticks = 2

\* The smoothed yaw after a REST tick that started from yaw with command c.
RestYaw(yaw, c) ==
    LET target == -Quot(c.yaw_rate * 1200, 2000)
        rate == Quot(target - yaw, 2)
    IN  yaw + (IF rate < -400 THEN -400 ELSE IF rate > 400 THEN 400 ELSE rate)

\* C20: smoothed_yaw starts at 0 and is modified only by calls that return in
\* REST; such a call filters the value left by the last REST tick, which is
\* not reset when REST is left or entered again.
C20_YawOnlyInRest ==
    /\ ~Called => smoothed_yaw = 0
    /\ (Called /\ ~(Returned /\ behavior_state = REST))
          => smoothed_yaw = old.smoothed_yaw
    /\ (Returned /\ behavior_state = REST)
          => smoothed_yaw = RestYaw(old.smoothed_yaw, command)

C20_Witness ==
    /\ Returned
    /\ behavior_state = REST
    /\ old.behavior_state = FINISHHOP
    /\ old.smoothed_yaw = 400
    /\ command.yaw_rate = -4000
    /\ smoothed_yaw = 800

====
